---- MODULE Spec2Model ----
(***************************************************************************)
(* The tool-calling orchestration of lumi-pilot: LLMClient.chat            *)
(* (infrastructure/llm/client.py), the wire client OpenAIClient            *)
(* (infrastructure/llm/openai_client.py) and the tool registry MCPManager  *)
(* (infrastructure/mcp/client/manager.py).                                 *)
(*                                                                         *)
(* Text is modelled as a sequence of tokens: "" is << >>, an f-string is   *)
(* the concatenation of its pieces.  The Chinese literals of the source    *)
(* are written as English tokens.  An optional field that is None holds    *)
(* << >> (a list) or "" (a string).  A state of the model is a point where *)
(* the coroutine is suspended: in a model call, or in a tool call of the   *)
(* MCP client.                                                             *)
(***************************************************************************)
EXTENDS Integers, Sequences, FiniteSets, TLC

VARIABLES
    clients,        \* MCPManager.clients: the server names that have a client
    tools,          \* MCPManager.tools: insertion-ordered dict, tool_key -> MCPTool
    pc,             \* where the chat coroutine is: idle, call1, tools, call2, done
    system_prompt,  \* chat(system_prompt=...)
    enable_tools,   \* chat(enable_tools=...)
    messages,       \* chat's local `messages`
    offered,        \* chat's local `tools` (the definitions from get_tools_for_llm)
    tool_results,   \* chat's local `tool_results`
    tool_log,       \* history: one entry per _execute_mcp_tool that has returned
    inflight,       \* the call awaited inside `async with client` (at most one)
    dispatched,     \* history: what was handed to Client.call_tool
    response,       \* chat's local `response` (the last one received)
    sent,           \* history: the arguments of each chat_completion call
    replies,        \* history: what the provider answered to each call
    result,         \* what chat returned (or raised), once it has
    service_response, \* what ChatService.process returned for the run, if it made it
    runs,           \* the locals of each of the chat coroutines that run side by side
    posts,          \* history: the POSTs the chat_completion calls of the run have made
    listed,         \* history: what list_tools of each registered server answered
    gen,            \* a chat call with keyword arguments: the bodies it has had posted
    proc,           \* a ChatService.process call: its request, its chat calls, its answer
    rpc,            \* the Chat RPC each gRPC worker thread handles, and its answer
    loop_thread     \* _thread_id of the handler's event loop; 0 stands for None

vars == <<clients, tools, pc, system_prompt, enable_tools, messages, offered,
          tool_results, tool_log, inflight, dispatched, response, sent, replies,
          result, service_response, runs, posts, listed, gen, proc, rpc,
          loop_thread>>

\* The most tool calls one model response of the model carries.
MaxCalls == 2

\* The most chat coroutines that run side by side on one LLMClient.
MaxRuns == 2

\* The gRPC worker threads that handle a Chat RPC at the same time.
MaxThreads == 3

--------------------------------------------------------------------------
\* Inputs

\* The message of the user.
UserMessage == <<"check the printer">>

\* The coroutines that run side by side, and the message each is called with.
Runs == 1..MaxRuns
UserMessageOf(r) == <<"check printer ", ToString(r)>>

\* system_prompt: None/"" (falsy) or a prompt.
SystemPrompts == { << >>, <<"You are Lumi">> }

\* The tools the internal server lists (printer/tools.py).
ServerTools == <<"printer_status", "printer_set_nozzle_temperature">>

\* A variant of QualifiedName that leaves the server out of the key.
QualifiedNameBare(server_name, name) == <<name>>

\* f"{server_name}:{tool.name}"
QualifiedName(server_name, name) == <<server_name, ":", name>>

\* The tool names a model response may carry: an advertised one, one that
\* no server has, and the empty name.
RequestedNames == { QualifiedName("internal", "printer_status"),
                    QualifiedName("nonexistent", "tool"),
                    << >> }

\* Ids of tool calls, provider-generated (never empty).
CallIds == {"call_1", "call_2"}

\* The JSON text of a tool call's arguments: two documents and a broken one.
RawArgs == { "{}", "{\"temperature\":200}", "{bad" }

\* choices[0].message.content: empty, blank, or a text.
Contents == { << >>, <<" ">>, <<"The printer is idle.">> }

\* One element of choices[0].message.tool_calls as the provider sends it.
RawToolCalls == [id : CallIds, name : RequestedNames, arguments : RawArgs]

RawToolCallSeqs(n) == UNION { [1..k -> RawToolCalls] : k \in 0..n }

\* The tool calls in the response to the call made after the tool round.
FollowUpCalls ==
    { << >> } \cup
    { <<[id |-> "call_2", name |-> QualifiedName("internal", "printer_status"),
         arguments |-> a]>> : a \in RawArgs }

\* What one POST to the provider ends in.
WireOutcomes(callSeqs) ==
    { [kind |-> "status", status |-> s, content |-> <<"upstream body">>,
       tool_calls |-> << >>] : s \in {429, 500} }
    \cup
    { [kind |-> k, status |-> 0, content |-> << >>, tool_calls |-> << >>] :
        k \in {"timeout", "request_error", "bad_json", "bad_schema"} }
    \cup
    { [kind |-> "ok", status |-> 200, content |-> c, tool_calls |-> tcs] :
        c \in Contents, tcs \in callSeqs }

\* What Client.call_tool of the MCP client ends in, under wait_for.
ToolOutcomes ==
    { [kind |-> "ok", text |-> <<"{\"state\": \"idle\"}">>],
      [kind |-> "timeout", text |-> << >>],
      [kind |-> "error", text |-> <<"ToolError: printer unreachable">>] }

--------------------------------------------------------------------------
\* Values

\* A call that returned v / that raised an exception whose str() is e.
Return(v) == [kind |-> "return", value |-> v, error |-> << >>]
Raise(e) == [kind |-> "raise", value |-> << >>, error |-> e]

\* str.strip() on a text of the model: whitespace tokens vanish.
Strip(text) == SelectSeq(text, LAMBDA t : t \notin {" ", ""})

--------------------------------------------------------------------------
\* openai_client.py

Message(role, content, tool_calls, tool_call_id) ==
    [role |-> role, content |-> content, tool_calls |-> tool_calls,
     tool_call_id |-> tool_call_id]

create_system_message(content) == Message("system", content, << >>, "")
create_user_message(content) == Message("user", content, << >>, "")
create_assistant_message(content, tool_calls) ==
    Message("assistant", content, tool_calls, "")
create_tool_message(content, tool_call_id) ==
    Message("tool", content, << >>, tool_call_id)

\* json.loads: the mapping as a set of <<key, value>> pairs, or a decode error.
JsonLoads(s) ==
    CASE s = "{}" -> Return({})
      [] s \in {"{\"temperature\":200}", "{\"temperature\": 200}"} ->
            Return({<<"temperature", "200">>})
      [] OTHER -> Raise(<<"JSONDecodeError">>)

\* json.dumps of a mapping: the canonical text (", " and ": " separators).
JsonDumps(m) ==
    IF m = {} THEN "{}" ELSE "{\"temperature\": 200}"

\* The args of one raw tool call: json.loads(arguments) if arguments else {}.
DecodeArguments(arguments) ==
    IF arguments # "" THEN JsonLoads(arguments) ELSE Return({})

\* ChatResponse.tool_calls: the list comprehension decodes every call, and a
\* decode error of any of them propagates out of the property.
ToolCallsProperty(resp) ==
    LET raw == resp.tool_calls
        bad == { i \in 1..Len(raw) : DecodeArguments(raw[i].arguments).kind = "raise" }
    IN  IF bad # {}
        THEN Raise(DecodeArguments(raw[CHOOSE i \in bad : \A j \in bad : i <= j].arguments).error)
        ELSE Return([ i \in 1..Len(raw) |->
                        [id |-> raw[i].id, name |-> raw[i].name,
                         args |-> DecodeArguments(raw[i].arguments).value,
                         type |-> "function"] ])

\* A variant of StatusErrorText that leaves the status code out.
StatusErrorTextNoCode(status, body) == <<"Error code: ", " - ">> \o body

\* The text of the exception chat_completion raises for a status other than 200.
StatusErrorText(status, body) ==
    <<"Error code: ", ToString(status), " - ">> \o body

\* A variant of PostsIssued that sends the request again after a timeout or
\* a request error.
PostsIssuedWithRetry(outcome) ==
    IF outcome.kind \in {"timeout", "request_error"} THEN 2 ELSE 1

\* The POSTs one chat_completion has made when it ends in `outcome`: the one
\* client.post, after which every path returns or raises.
PostsIssued(outcome) == 1

\* OpenAIClient.chat_completion once the POST has ended in `outcome`.
ChatCompletion(outcome) ==
    CASE outcome.kind = "ok" ->
            Return([content |-> outcome.content, tool_calls |-> outcome.tool_calls])
      [] outcome.kind = "status" ->
            Raise(StatusErrorText(outcome.status, outcome.content))
      [] outcome.kind = "timeout" -> Raise(<<"API request timed out: ", "30", "s">>)
      [] outcome.kind = "request_error" -> Raise(<<"HTTP request error: ", "connect failed">>)
      [] outcome.kind = "bad_json" -> Raise(<<"response parse error: ", "JSONDecodeError">>)
      [] OTHER -> Raise(<<"ValidationError">>)

\* The arguments of one chat_completion call as chat passes them.
Request(msgs, tool_defs) == [messages |-> msgs, tools |-> tool_defs]

--------------------------------------------------------------------------
\* manager.py

MCPTool(name, server_name) == [name |-> name, server_name |-> server_name]

\* tool_name in self.tools
InTools(dict, key) == \E i \in 1..Len(dict) : dict[i].key = key

\* self.tools[key]
ToolAt(dict, key) == dict[CHOOSE i \in 1..Len(dict) : dict[i].key = key].tool

\* self.tools[key] = tool: replaces the value of a key in place, or appends.
SetTool(dict, key, tool) ==
    IF InTools(dict, key)
    THEN [ i \in 1..Len(dict) |->
             IF dict[i].key = key THEN [key |-> key, tool |-> tool] ELSE dict[i] ]
    ELSE Append(dict, [key |-> key, tool |-> tool])

\* The loop of _register_tools over tools_list.
RECURSIVE RegisterTools(_, _, _)
RegisterTools(dict, server_name, tools_list) ==
    IF tools_list = << >> THEN dict
    ELSE RegisterTools(
            SetTool(dict, QualifiedName(server_name, Head(tools_list)),
                    MCPTool(Head(tools_list), server_name)),
            server_name, Tail(tools_list))

\* MCPManager.get_tools_for_llm
GetToolsForLlm(dict) ==
    [ i \in 1..Len(dict) |->
        [type |-> "function",
         name |-> QualifiedName(dict[i].tool.server_name, dict[i].tool.name)] ]

\* A variant of CallToolLookup without the catalog test: the part of the
\* name after the last ":" goes to the internal client.
CallToolLookupUnchecked(dict, cls, tool_name) ==
    Return([server |-> "internal", name |-> tool_name[Len(tool_name)]])

\* MCPManager.call_tool up to the call of the client: the two lookups.
CallToolLookup(dict, cls, tool_name) ==
    IF ~InTools(dict, tool_name)
    THEN Raise(<<"tool does not exist: ">> \o tool_name)
    ELSE LET tool == ToolAt(dict, tool_name)
         IN  IF tool.server_name \notin cls
             THEN Raise(<<"server connection does not exist: ", tool.server_name>>)
             ELSE Return([server |-> tool.server_name, name |-> tool.name])

\* A variant of CatalogAfterCall that drops a tool from the catalog when a
\* call of it has timed out or failed.
CatalogAfterCallEvicting(dict, tool_name, outcome) ==
    IF outcome.kind = "ok" THEN dict
    ELSE SelectSeq(dict, LAMBDA entry : entry.key # tool_name)

\* self.tools after call_tool: no path of it assigns to the catalog.
CatalogAfterCall(dict, tool_name, outcome) == dict

\* A variant of CallToolOutcome that returns an empty text on a timeout.
CallToolOutcomeSwallowTimeout(tool_name, outcome) ==
    CASE outcome.kind = "ok" -> Return(outcome.text)
      [] outcome.kind = "timeout" -> Return(<< >>)
      [] OTHER -> Raise(outcome.text)

\* MCPManager.call_tool from the end of the client's call: the text of the
\* result, ValueError for a timeout, the client's exception re-raised.
CallToolOutcome(tool_name, outcome) ==
    CASE outcome.kind = "ok" -> Return(outcome.text)
      [] outcome.kind = "timeout" -> Raise(<<"tool call timed out: ">> \o tool_name)
      [] OTHER -> Raise(outcome.text)

--------------------------------------------------------------------------
\* client.py: _execute_mcp_tool

\* friendly_messages.get(tool_name, f"...{tool_name}...")
FriendlyMessage(tool_name) ==
    CASE tool_name = <<"printer_status">> ->
            <<"Sorry, ", "the printer status query is unavailable, retry later or check the device">>
      [] tool_name = <<"printer_print">> ->
            <<"Sorry, ", "printing is unavailable, retry later or contact support">>
      [] OTHER ->
            <<"Sorry, ">> \o tool_name \o <<" is unavailable, retry later">>

\* A variant of ToolExcept that lets the exception out of _execute_mcp_tool.
ToolExceptReraise(tool_name, e) == Raise(e)

\* A variant of ToolExcept that hands the text of the exception to the model.
ToolExceptLeaksError(tool_name, e) == Return(<<"Error: ">> \o e)

\* The except clause of _execute_mcp_tool: the exception becomes a message.
ToolExcept(tool_name, e) == Return(FriendlyMessage(tool_name))

\* _execute_mcp_tool up to the await of the client: its return (or raise)
\* when it ends before that (with what call_tool raised), else what it hands
\* to the client.
ExecuteBegin(dict, cls, tool_call) ==
    IF tool_call.name = << >>
    THEN [await |-> FALSE, outcome |-> "noname", called |-> FALSE, raised |-> << >>,
          ret |-> Return(<<"Error: ", "the tool name is empty">>), dispatch |-> << >>]
    ELSE LET found == CallToolLookup(dict, cls, tool_call.name)
         IN  IF found.kind = "raise"
             THEN [await |-> FALSE, outcome |-> "notfound", called |-> TRUE,
                   raised |-> found.error,
                   ret |-> ToolExcept(tool_call.name, found.error), dispatch |-> << >>]
             ELSE [await |-> TRUE, outcome |-> "dispatched", called |-> TRUE,
                   raised |-> << >>, ret |-> Return(<< >>),
                   dispatch |-> <<[id |-> tool_call.id, server |-> found.value.server,
                                   name |-> found.value.name,
                                   arguments |-> tool_call.args]>>]

\* A variant of ExecuteEnd without the except clause: what call_tool raises
\* leaves _execute_mcp_tool.
ExecuteEndUnguarded(tool_call, outcome) ==
    LET got == CallToolOutcome(tool_call.name, outcome)
    IN  IF got.kind = "raise" THEN Raise(got.error) ELSE Return(got.value)

\* _execute_mcp_tool from the end of the client's call.
ExecuteEnd(tool_call, outcome) ==
    LET got == CallToolOutcome(tool_call.name, outcome)
    IN  IF got.kind = "raise" THEN ToolExcept(tool_call.name, got.error)
        ELSE Return(got.value)

\* What the history keeps of one finished _execute_mcp_tool: the call, how
\* it ended, whether call_tool was invoked, what the client answered or
\* call_tool raised before the client, and what _execute_mcp_tool gave back.
LogEntry(tool_call, outcome, called, output, ret) ==
    [id |-> tool_call.id, name |-> tool_call.name, args |-> tool_call.args,
     outcome |-> outcome, called |-> called, output |-> output, ret |-> ret]

--------------------------------------------------------------------------
\* client.py: LLMClient.chat

\* A variant of InitialMessages that keeps the messages on the client: a new
\* run appends to what the runs before it and beside it have put there.
InitialMessagesOnClient(sp, um) ==
    LET kept == { r \in 1..MaxRuns : runs[r].messages # << >> }
    IN  (IF kept = {} THEN messages ELSE runs[CHOOSE r \in kept : TRUE].messages)
        \o (IF sp # << >> THEN <<create_system_message(sp)>> ELSE << >>)
        \o <<create_user_message(um)>>

\* messages: the system message if there is a prompt, and the user message.
InitialMessages(sp, um) ==
    (IF sp # << >> THEN <<create_system_message(sp)>> ELSE << >>)
    \o <<create_user_message(um)>>

\* The first chat_completion call: tools=tools if tools else None.
FirstRequest(msgs, tool_defs) == Request(msgs, tool_defs)

\* A variant of ToolsRequested that does not look at the offered tools.
ToolsRequestedAnyway(tool_defs, tool_calls) == tool_calls # << >>

\* The test that starts the tool round.
ToolsRequested(tool_defs, tool_calls) == tool_defs # << >> /\ tool_calls # << >>

\* A variant of AssistantContent that keeps the content as it came.
AssistantContentVerbatim(content) == content

\* The content of the assistant message of the conversation.
AssistantContent(content) ==
    IF content # << >> /\ Strip(content) # << >> THEN content
    ELSE <<"calling tools...">>

\* tool_calls_formatted
FormatToolCalls(tool_calls) ==
    [ i \in 1..Len(tool_calls) |->
        [id |-> tool_calls[i].id, type |-> "function", name |-> tool_calls[i].name,
         arguments |-> JsonDumps(tool_calls[i].args)] ]

\* A variant of ToolMessages that pairs the results with the ids backwards.
ToolMessagesReversedIds(tool_calls, results) ==
    [ i \in 1..Len(results) |->
        create_tool_message(results[i], tool_calls[Len(results) + 1 - i].id) ]

\* The loop over enumerate(tool_results) that makes the tool messages.
ToolMessages(tool_calls, results) ==
    [ i \in 1..Len(results) |-> create_tool_message(results[i], tool_calls[i].id) ]

\* A variant of BuildConversation that puts the tool messages before the
\* assistant message.
BuildConversationToolsFirst(msgs, resp, tool_calls, results) ==
    msgs
    \o ToolMessages(tool_calls, results)
    \o <<create_assistant_message(AssistantContent(resp.content),
                                  FormatToolCalls(tool_calls))>>

\* conversation: a copy of messages, the assistant message, the tool messages.
BuildConversation(msgs, resp, tool_calls, results) ==
    msgs
    \o <<create_assistant_message(AssistantContent(resp.content),
                                  FormatToolCalls(tool_calls))>>
    \o ToolMessages(tool_calls, results)

\* A variant of SecondRequest that passes the tool definitions again.
SecondRequestWithTools(conversation, tool_defs) == Request(conversation, tool_defs)

\* The chat_completion call after the tool round: messages and call_params.
SecondRequest(conversation, tool_defs) == Request(conversation, << >>)

\* A variant of ChatExcept that lets the exception out of chat.
ChatExceptReraise(e) ==
    [kind |-> "raise", success |-> FALSE, message |-> << >>, error |-> e,
     tools_used |-> 0, tool_call_ids |-> << >>]

\* A variant of ChatExcept that hands back the last tool result as the message.
ChatExceptWithTranscript(e) ==
    [kind |-> "return", success |-> FALSE,
     message |-> IF tool_results # << >> THEN tool_results[Len(tool_results)] ELSE << >>,
     error |-> <<"LLM API call failed: ">> \o e,
     tools_used |-> 0, tool_call_ids |-> << >>]

\* A variant of ChatExcept that leaves the error out.
ChatExceptSilent(e) ==
    [kind |-> "return", success |-> FALSE, message |-> << >>, error |-> << >>,
     tools_used |-> 0, tool_call_ids |-> << >>]

\* The ChatResponse of the except clause of chat.
ChatExcept(e) ==
    [kind |-> "return", success |-> FALSE, message |-> << >>,
     error |-> <<"LLM API call failed: ">> \o e,
     tools_used |-> 0, tool_call_ids |-> << >>]

\* A variant of SuccessResponse that falls back to the placeholder of the
\* assistant message when the content is empty.
SuccessResponsePlaceholder(content, tool_calls) ==
    [kind |-> "return", success |-> TRUE, message |-> AssistantContent(content),
     error |-> << >>, tools_used |-> Len(tool_calls),
     tool_call_ids |-> [ i \in 1..Len(tool_calls) |-> tool_calls[i].id ]]

\* The ChatResponse of the success path.
SuccessResponse(content, tool_calls) ==
    [kind |-> "return", success |-> TRUE, message |-> content, error |-> << >>,
     tools_used |-> Len(tool_calls),
     tool_call_ids |-> [ i \in 1..Len(tool_calls) |-> tool_calls[i].id ]]

\* From the end of the last model call to the return: metadata reads
\* response.tool_calls, inside the try.
Finish(resp) ==
    LET tcs == ToolCallsProperty(resp)
    IN  IF tcs.kind = "raise" THEN ChatExcept(tcs.error)
        ELSE SuccessResponse(resp.content, tcs.value)

\* A variant of RunToolLoop that starts every remaining call at once, as a
\* gather over the tool calls would.
RunToolLoopFanOut(dict, cls, tool_calls, results, log) ==
    LET rest == SubSeq(tool_calls, Len(results) + 1, Len(tool_calls))
        begun == [ i \in 1..Len(rest) |-> ExecuteBegin(dict, cls, rest[i]) ]
        awaited == SelectSeq(begun, LAMBDA b : b.await)
    IN  IF awaited = << >>
        THEN [status |-> "finished",
              results |-> results \o [ i \in 1..Len(rest) |-> begun[i].ret.value ],
              log |-> log, dispatch |-> << >>, error |-> << >>]
        ELSE [status |-> "await", results |-> results, log |-> log,
              dispatch |-> [ i \in 1..Len(awaited) |-> awaited[i].dispatch[1] ],
              error |-> << >>]

\* The loop `for tool_call in response.tool_calls` from the call after the
\* results so far, up to the next await of the MCP client, the end of the
\* list, or an exception out of _execute_mcp_tool.
RECURSIVE RunToolLoop(_, _, _, _, _)
RunToolLoop(dict, cls, tool_calls, results, log) ==
    IF Len(results) = Len(tool_calls)
    THEN [status |-> "finished", results |-> results, log |-> log,
          dispatch |-> << >>, error |-> << >>]
    ELSE LET tc == tool_calls[Len(results) + 1]
             b == ExecuteBegin(dict, cls, tc)
         IN  IF b.await
             THEN [status |-> "await", results |-> results, log |-> log,
                   dispatch |-> b.dispatch, error |-> << >>]
             ELSE IF b.ret.kind = "raise"
             THEN [status |-> "raised", results |-> results,
                   log |-> Append(log, LogEntry(tc, b.outcome, b.called, b.raised,
                                                b.ret.error)),
                   dispatch |-> << >>, error |-> b.ret.error]
             ELSE RunToolLoop(dict, cls, tool_calls, Append(results, b.ret.value),
                              Append(log, LogEntry(tc, b.outcome, b.called, b.raised,
                                                   b.ret.value)))

--------------------------------------------------------------------------
\* services/chat/service.py and core/models.py

\* ServiceResponse.success_response / ServiceResponse.error_response
success_response(data) == [success |-> TRUE, data |-> data, error |-> << >>]
error_response(error) == [success |-> FALSE, data |-> << >>, error |-> error]

\* A variant of HandleChatResult that takes an empty message for a failure.
HandleChatResultNonEmpty(chat_response) ==
    IF chat_response.success /\ chat_response.message # << >>
    THEN success_response(<<[message |-> chat_response.message]>>)
    ELSE error_response(IF chat_response.error # << >> THEN chat_response.error
                        ELSE <<"unknown error">>)

\* ChatService._handle_chat from the return of llm_client.chat.
HandleChatResult(chat_response) ==
    IF chat_response.success
    THEN success_response(<<[message |-> chat_response.message]>>)
    ELSE error_response(IF chat_response.error # << >> THEN chat_response.error
                        ELSE <<"unknown error">>)

\* ChatService.process from the end of llm_client.chat: the response of
\* _handle_chat, or the error response of its except clause.
ProcessResult(r) ==
    IF r.kind = "raise" THEN error_response(<<"processing failed: ">> \o r.error)
    ELSE HandleChatResult(r)

--------------------------------------------------------------------------
\* The state machine

\* chat has not been called with keyword arguments; process has not been
\* called; a worker thread handles no RPC.
IdleGen == [pc |-> "idle", kwargs |-> << >>, bodies |-> << >>, metadata |-> << >>]
IdleProc == [pc |-> "idle", request |-> << >>, chat_calls |-> << >>, answer |-> << >>]
IdleRpc == [pc |-> "idle", answer |-> << >>]
Threads == 1..MaxThreads

\* The locals of a chat coroutine that has not been called.
IdleRun ==
    [pc |-> "idle", system_prompt |-> << >>, messages |-> << >>, offered |-> << >>,
     tool_results |-> << >>, tool_log |-> << >>, inflight |-> << >>,
     response |-> << >>, sent |-> << >>, replies |-> << >>, result |-> << >>]

Init ==
    /\ clients = {}
    /\ tools = << >>
    /\ pc = "idle"
    /\ system_prompt = << >>
    /\ enable_tools = FALSE
    /\ messages = << >>
    /\ offered = << >>
    /\ tool_results = << >>
    /\ tool_log = << >>
    /\ inflight = << >>
    /\ dispatched = << >>
    /\ response = << >>
    /\ sent = << >>
    /\ replies = << >>
    /\ result = << >>
    /\ service_response = << >>
    /\ runs = [ r \in Runs |-> IdleRun ]
    /\ posts = 0
    /\ listed = << >>
    /\ gen = IdleGen
    /\ proc = IdleProc
    /\ rpc = [ t \in Threads |-> IdleRpc ]
    /\ loop_thread = 0

\* MCPManager.connect_all: the client is saved, then _register_tools, which
\* logs and swallows a failure of list_tools.
ConnectAll(listing) ==
    /\ pc = "idle"
    /\ clients = {}
    /\ clients' = clients \cup {"internal"}
    /\ tools' = IF listing.kind = "return"
                THEN RegisterTools(tools, "internal", listing.value)
                ELSE tools
    /\ UNCHANGED <<pc, system_prompt, enable_tools, messages, offered, tool_results,
                   tool_log, inflight, dispatched, response, sent, replies, result,
                   service_response, runs, posts, listed,
                   gen, proc, rpc, loop_thread>>

\* LLMClient.chat up to the await of the first chat_completion.
Chat(sp, et) ==
    /\ pc = "idle"
    /\ LET msgs == InitialMessages(sp, UserMessage)
           tool_defs == IF et THEN GetToolsForLlm(tools) ELSE << >>
       IN  /\ system_prompt' = sp
           /\ enable_tools' = et
           /\ messages' = msgs
           /\ offered' = tool_defs
           /\ sent' = <<FirstRequest(msgs, tool_defs)>>
    /\ pc' = "call1"
    /\ UNCHANGED <<clients, tools, tool_results, tool_log, inflight, dispatched,
                   response, replies, result, service_response, runs, posts,
                   listed,
                   gen, proc, rpc, loop_thread>>

\* chat returns r (or raises); ChatService.process, which calls chat with
\* enable_tools=True, goes on from there to its own return.
Returns(r) ==
    /\ pc' = "done"
    /\ result' = <<r>>
    /\ inflight' = << >>
    /\ service_response' = IF enable_tools THEN <<ProcessResult(r)>> ELSE << >>

\* chat goes on after the tool loop has reached `ls`.
Continue(resp, tool_calls, ls) ==
    /\ tool_results' = ls.results
    /\ tool_log' = ls.log
    /\ CASE ls.status = "await" ->
              /\ pc' = "tools"
              /\ inflight' = ls.dispatch
              /\ dispatched' = dispatched \o ls.dispatch
              /\ UNCHANGED <<sent, result, service_response>>
         [] ls.status = "finished" ->
              /\ pc' = "call2"
              /\ inflight' = << >>
              /\ sent' = Append(sent,
                    SecondRequest(BuildConversation(messages, resp, tool_calls,
                                                    ls.results), offered))
              /\ UNCHANGED <<dispatched, result, service_response>>
         [] OTHER ->
              /\ Returns(ChatExcept(ls.error))
              /\ UNCHANGED <<dispatched, sent>>

\* The first chat_completion ends: chat up to its next await or its return.
FirstReply(outcome) ==
    /\ pc = "call1"
    /\ replies' = Append(replies, outcome)
    /\ LET got == ChatCompletion(outcome)
           tcs == ToolCallsProperty(got.value)
       IN  IF got.kind = "raise"
           THEN /\ Returns(ChatExcept(got.error))
                /\ UNCHANGED <<response, tool_results, tool_log, dispatched, sent>>
           ELSE /\ response' = <<got.value>>
                /\ IF tcs.kind = "raise"
                   THEN /\ Returns(ChatExcept(tcs.error))
                        /\ UNCHANGED <<tool_results, tool_log, dispatched, sent>>
                   ELSE IF ToolsRequested(offered, tcs.value)
                   THEN Continue(got.value, tcs.value,
                                 RunToolLoop(tools, clients, tcs.value, << >>, << >>))
                   ELSE /\ Returns(Finish(got.value))
                        /\ UNCHANGED <<tool_results, tool_log, dispatched, sent>>
    /\ posts' = posts + PostsIssued(outcome)
    /\ UNCHANGED <<clients, tools, system_prompt, enable_tools, messages, offered,
                   runs, listed,
                   gen, proc, rpc, loop_thread>>

\* The awaited call of the MCP client ends (a result, the timeout of
\* wait_for, an exception of the tool): chat up to its next await or return.
ToolReply(outcome) ==
    /\ pc = "tools"
    /\ inflight # << >>
    /\ LET tcs == ToolCallsProperty(response[1]).value
           tc == tcs[Len(tool_results) + 1]
           ret == ExecuteEnd(tc, outcome)
       IN  IF ret.kind = "raise"
           THEN /\ Returns(ChatExcept(ret.error))
                /\ tool_log' = Append(tool_log,
                        LogEntry(tc, outcome.kind, TRUE, outcome.text, ret.error))
                /\ UNCHANGED <<tool_results, dispatched, sent>>
           ELSE Continue(response[1], tcs,
                    RunToolLoop(tools, clients, tcs, Append(tool_results, ret.value),
                        Append(tool_log,
                               LogEntry(tc, outcome.kind, TRUE, outcome.text, ret.value))))
    /\ UNCHANGED <<clients, tools, system_prompt, enable_tools, messages, offered,
                   response, replies, runs, posts, listed,
                   gen, proc, rpc, loop_thread>>

\* The second chat_completion ends: chat up to its return.
FinalReply(outcome) ==
    /\ pc = "call2"
    /\ replies' = Append(replies, outcome)
    /\ LET got == ChatCompletion(outcome)
       IN  IF got.kind = "raise"
           THEN /\ Returns(ChatExcept(got.error))
                /\ UNCHANGED response
           ELSE /\ Returns(Finish(got.value))
                /\ response' = <<got.value>>
    /\ posts' = posts + PostsIssued(outcome)
    /\ UNCHANGED <<clients, tools, system_prompt, enable_tools, messages, offered,
                   tool_results, tool_log, dispatched, sent, runs, listed,
                   gen, proc, rpc, loop_thread>>

\* A variant of OnCancel where the except clause of _execute_mcp_tool
\* catches the cancellation of a tool call as it catches a failure: the
\* apology is appended to the tool results.
OnCancelCaught(where, tool_call, results) ==
    [raised |-> <<"CancelledError">>,
     tool_results |-> IF where = "tools"
                      THEN Append(results, FriendlyMessage(tool_call.name))
                      ELSE results]

\* CancelledError is thrown into chat at the await it is suspended in.  It
\* is a BaseException: the `except Exception` clauses of chat_completion,
\* call_tool, _execute_mcp_tool and chat let it pass, so it leaves chat and
\* the tool results are as they were.
OnCancel(where, tool_call, results) ==
    [raised |-> <<"CancelledError">>, tool_results |-> results]

\* The task that runs chat is cancelled while chat waits for a model call or
\* for a tool call.
Cancel ==
    /\ pc \in {"call1", "tools", "call2"}
    /\ LET tc == IF pc = "tools"
                 THEN ToolCallsProperty(response[1]).value[Len(tool_results) + 1]
                 ELSE [id |-> "", name |-> << >>, args |-> {}]
           left == OnCancel(pc, tc, tool_results)
       IN  tool_results' = left.tool_results
    /\ pc' = "cancelled"
    /\ inflight' = << >>
    /\ UNCHANGED <<clients, tools, system_prompt, enable_tools, messages, offered,
                   tool_log, dispatched, response, sent, replies, result,
                   service_response, runs, posts, listed,
                   gen, proc, rpc, loop_thread>>

\* The caller has the result, or the CancelledError; the locals of the run
\* are gone.
ReturnToCaller ==
    /\ pc \in {"done", "cancelled"}
    /\ pc' = "idle"
    /\ system_prompt' = << >>
    /\ enable_tools' = FALSE
    /\ messages' = << >>
    /\ offered' = << >>
    /\ tool_results' = << >>
    /\ tool_log' = << >>
    /\ inflight' = << >>
    /\ dispatched' = << >>
    /\ response' = << >>
    /\ sent' = << >>
    /\ replies' = << >>
    /\ result' = << >>
    /\ service_response' = << >>
    /\ posts' = 0
    /\ UNCHANGED <<clients, tools, runs, listed,
                   gen, proc, rpc, loop_thread>>

\* What list_tools of the internal client ends in.
Listings == { Return(ServerTools), Raise(<<"list_tools failed">>) }

\* What the first and the second POST of a run may end in.
FirstOutcomes == WireOutcomes(RawToolCallSeqs(MaxCalls))
SecondOutcomes == WireOutcomes(FollowUpCalls)

Next ==
    \/ \E listing \in Listings : ConnectAll(listing)
    \/ \E sp \in SystemPrompts, et \in BOOLEAN : Chat(sp, et)
    \/ pc = "call1" /\ \E outcome \in FirstOutcomes : FirstReply(outcome)
    \/ pc = "tools" /\ \E outcome \in ToolOutcomes : ToolReply(outcome)
    \/ pc = "call2" /\ \E outcome \in SecondOutcomes : FinalReply(outcome)
    \/ ReturnToCaller

Spec == Init /\ [][Next]_vars

\* The runs of Spec, and those that the owner of the task cancels while chat
\* waits.  Nothing in the repository cancels the task; a caller of the
\* library may.
NextCancel == Next \/ Cancel

SpecCancel == Init /\ [][NextCancel]_vars

--------------------------------------------------------------------------
\* Several chat coroutines on one LLMClient and one MCPManager.  Each has
\* its locals in runs[r]; they interleave at their awaits.

\* chat returns x in the run with locals l.
RunReturns(l, x) == [l EXCEPT !.pc = "done", !.result = <<x>>, !.inflight = << >>]

\* The run with locals l goes on after its tool loop has reached `ls`.
RunContinue(l, resp, tool_calls, ls) ==
    LET after == [l EXCEPT !.tool_results = ls.results, !.tool_log = ls.log]
    IN  CASE ls.status = "await" ->
                [after EXCEPT !.pc = "tools", !.inflight = ls.dispatch]
          [] ls.status = "finished" ->
                [after EXCEPT !.pc = "call2", !.inflight = << >>,
                    !.sent = Append(l.sent,
                        SecondRequest(BuildConversation(l.messages, resp, tool_calls,
                                                        ls.results), l.offered))]
          [] OTHER -> RunReturns(after, ChatExcept(ls.error))

\* chat of run r up to the await of its first chat_completion.
ParChat(r, sp) ==
    /\ runs[r].pc = "idle"
    /\ LET msgs == InitialMessages(sp, UserMessageOf(r))
           tool_defs == GetToolsForLlm(tools)
       IN  runs' = [runs EXCEPT ![r] =
                        [IdleRun EXCEPT !.pc = "call1", !.system_prompt = sp,
                            !.messages = msgs, !.offered = tool_defs,
                            !.sent = <<FirstRequest(msgs, tool_defs)>>]]
    /\ UNCHANGED <<clients, tools, pc, system_prompt, enable_tools, messages, offered,
                   tool_results, tool_log, inflight, dispatched, response, sent,
                   replies, result, service_response, posts, listed,
                   gen, proc, rpc, loop_thread>>

\* The first chat_completion of run r ends.
ParFirstReply(r, outcome) ==
    /\ runs[r].pc = "call1"
    /\ LET l == [runs[r] EXCEPT !.replies = Append(@, outcome)]
           got == ChatCompletion(outcome)
           tcs == ToolCallsProperty(got.value)
           heard == [l EXCEPT !.response = <<got.value>>]
       IN  runs' = [runs EXCEPT ![r] =
                IF got.kind = "raise" THEN RunReturns(l, ChatExcept(got.error))
                ELSE IF tcs.kind = "raise" THEN RunReturns(heard, ChatExcept(tcs.error))
                ELSE IF ToolsRequested(l.offered, tcs.value)
                THEN RunContinue(heard, got.value, tcs.value,
                        RunToolLoop(tools, clients, tcs.value, << >>, << >>))
                ELSE RunReturns(heard, Finish(got.value))]
    /\ UNCHANGED <<clients, tools, pc, system_prompt, enable_tools, messages, offered,
                   tool_results, tool_log, inflight, dispatched, response, sent,
                   replies, result, service_response, posts, listed,
                   gen, proc, rpc, loop_thread>>

\* The call of the MCP client that run r awaits ends.
ParToolReply(r, outcome) ==
    /\ runs[r].pc = "tools"
    /\ runs[r].inflight # << >>
    /\ LET l == runs[r]
           tcs == ToolCallsProperty(l.response[1]).value
           tc == tcs[Len(l.tool_results) + 1]
           ret == ExecuteEnd(tc, outcome)
       IN  runs' = [runs EXCEPT ![r] =
                IF ret.kind = "raise"
                THEN RunReturns([l EXCEPT !.tool_log = Append(@,
                                    LogEntry(tc, outcome.kind, TRUE, outcome.text,
                                             ret.error))],
                                ChatExcept(ret.error))
                ELSE RunContinue(l, l.response[1], tcs,
                        RunToolLoop(tools, clients, tcs,
                            Append(l.tool_results, ret.value),
                            Append(l.tool_log,
                                   LogEntry(tc, outcome.kind, TRUE, outcome.text,
                                            ret.value))))]
    /\ UNCHANGED <<clients, tools, pc, system_prompt, enable_tools, messages, offered,
                   tool_results, tool_log, inflight, dispatched, response, sent,
                   replies, result, service_response, posts, listed,
                   gen, proc, rpc, loop_thread>>

\* The second chat_completion of run r ends.
ParFinalReply(r, outcome) ==
    /\ runs[r].pc = "call2"
    /\ LET l == [runs[r] EXCEPT !.replies = Append(@, outcome)]
           got == ChatCompletion(outcome)
       IN  runs' = [runs EXCEPT ![r] =
                IF got.kind = "raise" THEN RunReturns(l, ChatExcept(got.error))
                ELSE RunReturns([l EXCEPT !.response = <<got.value>>],
                                Finish(got.value))]
    /\ UNCHANGED <<clients, tools, pc, system_prompt, enable_tools, messages, offered,
                   tool_results, tool_log, inflight, dispatched, response, sent,
                   replies, result, service_response, posts, listed,
                   gen, proc, rpc, loop_thread>>

\* The caller of run r has the result; the locals of the run are gone.
ParReturnToCaller(r) ==
    /\ runs[r].pc = "done"
    /\ runs' = [runs EXCEPT ![r] = IdleRun]
    /\ UNCHANGED <<clients, tools, pc, system_prompt, enable_tools, messages, offered,
                   tool_results, tool_log, inflight, dispatched, response, sent,
                   replies, result, service_response, posts, listed,
                   gen, proc, rpc, loop_thread>>

\* What the POSTs of the runs side by side may end in: a timeout, or a 200
\* with a content and at most one tool call.
ParFirstOutcomes ==
    { o \in WireOutcomes({ << >>,
                           <<[id |-> "call_1",
                              name |-> QualifiedName("internal", "printer_status"),
                              arguments |-> "{}"]>> }) :
        o.kind \in {"ok", "timeout"} /\ o.content # <<" ">> }
ParSecondOutcomes ==
    { o \in WireOutcomes({ << >> }) :
        o.kind \in {"ok", "timeout"} /\ o.content # <<" ">> }

\* After startup: connect_all has listed the tools of the internal server.
ParInit ==
    /\ clients = {"internal"}
    /\ tools = RegisterTools(<< >>, "internal", ServerTools)
    /\ pc = "idle"
    /\ system_prompt = << >>
    /\ enable_tools = FALSE
    /\ messages = << >>
    /\ offered = << >>
    /\ tool_results = << >>
    /\ tool_log = << >>
    /\ inflight = << >>
    /\ dispatched = << >>
    /\ response = << >>
    /\ sent = << >>
    /\ replies = << >>
    /\ result = << >>
    /\ service_response = << >>
    /\ runs = [ r \in Runs |-> IdleRun ]
    /\ posts = 0
    /\ listed = << >>
    /\ gen = IdleGen
    /\ proc = IdleProc
    /\ rpc = [ t \in Threads |-> IdleRpc ]
    /\ loop_thread = 0

ParNext ==
    \/ \E r \in Runs, sp \in SystemPrompts : ParChat(r, sp)
    \/ \E r \in Runs :
          runs[r].pc = "call1" /\ \E outcome \in ParFirstOutcomes : ParFirstReply(r, outcome)
    \/ \E r \in Runs :
          runs[r].pc = "tools" /\ \E outcome \in ToolOutcomes : ParToolReply(r, outcome)
    \/ \E r \in Runs :
          runs[r].pc = "call2" /\ \E outcome \in ParSecondOutcomes : ParFinalReply(r, outcome)
    \/ \E r \in Runs : ParReturnToCaller(r)

SpecPar == ParInit /\ [][ParNext]_vars

--------------------------------------------------------------------------
\* The generation parameters of a chat call, from the keyword arguments of
\* chat to the body of the POST.  Values are written as Python writes them;
\* "absent" is a key that is not there.

GenKeys == {"model", "max_tokens", "temperature", "top_p", "stop", "response_format"}

\* The values a caller passes under each key.
GenValues(key) ==
    CASE key = "model" -> {"qwen-plus"}
      [] key = "max_tokens" -> {"0", "200"}
      [] key = "temperature" -> {"0", "0.9"}
      [] key = "top_p" -> {"0.8"}
      [] key = "stop" -> {"['\\n\\n']"}
      [] OTHER -> {"{'type': 'json_object'}"}

\* **kwargs of chat.
Kwargs ==
    { kw \in [GenKeys -> {"absent"} \cup UNION { GenValues(key) : key \in GenKeys }] :
        \A key \in GenKeys : kw[key] \in {"absent"} \cup GenValues(key) }

\* kwargs.get(key, default)
KwargsGet(kw, key, default) == IF kw[key] = "absent" THEN default ELSE kw[key]

\* call_params of chat: three keys, each from kwargs or from the settings.
CallParams(kw) ==
    [model |-> KwargsGet(kw, "model", "settings.openai_model"),
     max_tokens |-> KwargsGet(kw, "max_tokens", "settings.max_tokens"),
     temperature |-> KwargsGet(kw, "temperature", "settings.temperature")]

\* bool(v) of a value a caller passes.
Truthy(v) == v \notin {"absent", "0", ""}

\* request_data of chat_completion without messages and tools: model and
\* max_tokens fall back on a falsy value, temperature on None, and the
\* keyword arguments chat_completion was called with are added.
RequestData(model, max_tokens, temperature, extra) ==
    [ key \in GenKeys |->
        CASE key = "model" -> IF Truthy(model) THEN model ELSE "self.model"
          [] key = "max_tokens" ->
                IF Truthy(max_tokens) THEN max_tokens ELSE "self.max_tokens"
          [] key = "temperature" ->
                IF temperature # "absent" THEN temperature ELSE "self.temperature"
          [] OTHER -> extra[key] ]

\* The keyword arguments chat calls chat_completion with besides messages,
\* tools and **call_params: none.
ExtraOfChat(kw) == [ key \in GenKeys |-> "absent" ]

\* The body of a model call of chat.
BodyOfChat(kw) ==
    LET call_params == CallParams(kw)
    IN  RequestData(call_params.model, call_params.max_tokens,
                    call_params.temperature, ExtraOfChat(kw))

\* metadata of the success response: generation_params and **kwargs.
GenMetadata(kw) == [generation_params |-> CallParams(kw), kwargs |-> kw]

\* chat(message, **kw) up to the await of the first chat_completion.
GenChat(kw) ==
    /\ gen.pc = "idle"
    /\ gen' = [gen EXCEPT !.pc = "call1", !.kwargs = <<kw>>,
                          !.bodies = <<BodyOfChat(kw)>>]
    /\ UNCHANGED <<clients, tools, pc, system_prompt, enable_tools, messages, offered,
                   tool_results, tool_log, inflight, dispatched, response, sent,
                   replies, result, service_response, runs, posts, listed, proc, rpc,
                   loop_thread>>

\* The first response asks for tools: after the round, the second
\* chat_completion.
GenSecondCall ==
    /\ gen.pc = "call1"
    /\ gen' = [gen EXCEPT !.pc = "call2",
                          !.bodies = Append(gen.bodies, BodyOfChat(gen.kwargs[1]))]
    /\ UNCHANGED <<clients, tools, pc, system_prompt, enable_tools, messages, offered,
                   tool_results, tool_log, inflight, dispatched, response, sent,
                   replies, result, service_response, runs, posts, listed, proc, rpc,
                   loop_thread>>

\* The last response has come: the success response.
GenReturn ==
    /\ gen.pc \in {"call1", "call2"}
    /\ gen' = [gen EXCEPT !.pc = "done", !.metadata = <<GenMetadata(gen.kwargs[1])>>]
    /\ UNCHANGED <<clients, tools, pc, system_prompt, enable_tools, messages, offered,
                   tool_results, tool_log, inflight, dispatched, response, sent,
                   replies, result, service_response, runs, posts, listed, proc, rpc,
                   loop_thread>>

\* The caller has the response.
GenBack ==
    /\ gen.pc = "done"
    /\ gen' = IdleGen
    /\ UNCHANGED <<clients, tools, pc, system_prompt, enable_tools, messages, offered,
                   tool_results, tool_log, inflight, dispatched, response, sent,
                   replies, result, service_response, runs, posts, listed, proc, rpc,
                   loop_thread>>

GenNext ==
    \/ \E kw \in Kwargs : GenChat(kw)
    \/ GenSecondCall
    \/ GenReturn
    \/ GenBack

SpecGen == Init /\ [][GenNext]_vars

--------------------------------------------------------------------------
\* ChatService.process on its own: from the request to the answer, with the
\* call of LLMClient.chat as one await.

\* The requests: an action, and a payload with or without a message, a
\* temperature and max_tokens.
ProcActions == {"chat", "stream_chat", "delete", ""}
ProcMessages ==
    { << >>, <<" ">>, <<" ", " ">>, <<"hi">>, <<" ", "hi">>, UserMessage }
Payloads ==
    { pl \in [has_message : BOOLEAN, message : ProcMessages,
              temperature : {"absent", "0.9"}, max_tokens : {"absent", "200"}] :
        ~pl.has_message => pl.message = << >> }
ServiceRequests == [action : ProcActions, payload : Payloads]

\* What the awaited chat may return to _handle_chat.
ChatResults ==
    { SuccessResponse(<<"The printer is idle.">>, << >>),
      SuccessResponse(<< >>, << >>),
      ChatExcept(<<"API request timed out: ", "30", "s">>) }

\* ChatRequest(**request.payload): message is a required field.
ValidateChatRequest(payload) ==
    IF payload.has_message THEN Return(payload)
    ELSE Raise(<<"1 validation error for ChatRequest: ", "message field required">>)

\* A variant of MessageIsBlank without the strip.
MessageIsBlankNoStrip(message) == message = << >>

\* not chat_req.message or not chat_req.message.strip()
MessageIsBlank(message) == message = << >> \/ Strip(message) = << >>

\* llm_kwargs of _handle_chat: the two parameters that are not None.
LlmKwargs(chat_req) ==
    [ key \in GenKeys |->
        CASE key = "temperature" -> chat_req.temperature
          [] key = "max_tokens" -> chat_req.max_tokens
          [] OTHER -> "absent" ]

\* process up to its return or to the await of llm_client.chat: the answer,
\* or the arguments of chat.
ProcessBegin(request) ==
    IF request.action \in {"chat", "stream_chat"}
    THEN LET parsed == ValidateChatRequest(request.payload)
         IN  IF parsed.kind = "raise"
             THEN [answer |-> <<error_response(<<"processing failed: ">> \o parsed.error)>>,
                   call |-> << >>]
             ELSE IF MessageIsBlank(parsed.value.message)
             THEN [answer |-> <<error_response(<<"the message must not be empty">>)>>,
                   call |-> << >>]
             ELSE [answer |-> << >>,
                   call |-> <<[message |-> parsed.value.message, enable_tools |-> TRUE,
                               kwargs |-> LlmKwargs(parsed.value)]>>]
    ELSE [answer |-> <<error_response(<<"unsupported action: ", request.action>>)>>,
          call |-> << >>]

\* process is called with a request.
Process(request) ==
    /\ proc.pc = "idle"
    /\ LET begun == ProcessBegin(request)
       IN  proc' = [pc |-> IF begun.call = << >> THEN "answered" ELSE "chat",
                    request |-> <<request>>,
                    chat_calls |-> begun.call,
                    answer |-> begun.answer]
    /\ UNCHANGED <<clients, tools, pc, system_prompt, enable_tools, messages, offered,
                   tool_results, tool_log, inflight, dispatched, response, sent,
                   replies, result, service_response, runs, posts, listed, gen, rpc,
                   loop_thread>>

\* The awaited chat returns: _handle_chat up to its return.
ProcChatReturns(chat_response) ==
    /\ proc.pc = "chat"
    /\ proc' = [proc EXCEPT !.pc = "answered",
                            !.answer = <<ProcessResult(chat_response)>>]
    /\ UNCHANGED <<clients, tools, pc, system_prompt, enable_tools, messages, offered,
                   tool_results, tool_log, inflight, dispatched, response, sent,
                   replies, result, service_response, runs, posts, listed, gen, rpc,
                   loop_thread>>

\* The caller of process has the answer.
ProcBack ==
    /\ proc.pc = "answered"
    /\ proc' = IdleProc
    /\ UNCHANGED <<clients, tools, pc, system_prompt, enable_tools, messages, offered,
                   tool_results, tool_log, inflight, dispatched, response, sent,
                   replies, result, service_response, runs, posts, listed, gen, rpc,
                   loop_thread>>

ProcNext ==
    \/ \E request \in ServiceRequests : Process(request)
    \/ \E chat_response \in ChatResults : ProcChatReturns(chat_response)
    \/ ProcBack

SpecProc == Init /\ [][ProcNext]_vars

--------------------------------------------------------------------------
\* LumiPilotServiceHandler.Chat on the worker threads of the gRPC server:
\* every thread drives the one event loop of the handler with
\* run_until_complete.

\* What application.execute gives for the request of thread t.
ExecuteResults(t) ==
    { ProcessResult(SuccessResponse(<<"reply to ", ToString(t)>>, << >>)),
      ProcessResult(ChatExcept(<<"API request timed out: ", "30", "s">>)) }

\* The ChatResponse of Chat for a service response.
HandlerResponse(service_resp) ==
    IF service_resp.success
    THEN [success |-> TRUE, message |-> service_resp.data[1].message, error |-> << >>]
    ELSE [success |-> FALSE, message |-> << >>,
          error |-> IF service_resp.error # << >> THEN service_resp.error
                    ELSE <<"unknown error">>]

\* The ChatResponse of the except clause of Chat.
InternalError(e) ==
    [success |-> FALSE, message |-> << >>, error |-> <<"internal service error: ">> \o e]

\* The test run_until_complete and run_forever make before they drive the
\* loop: a loop that has a thread is running.
CheckRunning(thread_id) ==
    IF thread_id # 0 THEN Raise(<<"This event loop is already running">>)
    ELSE Return(<< >>)

\* What Chat of thread t answers when its loop run ends: the response for
\* its own request; when another thread drove the same loop at the same
\* time, run without a lock on the loop's state, that or an internal error.
RpcAnswers(t, raced) ==
    { HandlerResponse(r) : r \in ExecuteResults(t) }
    \cup (IF raced THEN { InternalError(<<"RuntimeError">>) } ELSE {})

\* Chat on thread t up to the first test of run_until_complete.
RpcChat(t) ==
    /\ rpc[t].pc = "idle"
    /\ LET checked == CheckRunning(loop_thread)
       IN  rpc' = [rpc EXCEPT ![t] =
                     IF checked.kind = "raise"
                     THEN [pc |-> "answered", answer |-> <<InternalError(checked.error)>>]
                     ELSE [pc |-> "scheduled", answer |-> << >>]]
    /\ UNCHANGED <<clients, tools, pc, system_prompt, enable_tools, messages, offered,
                   tool_results, tool_log, inflight, dispatched, response, sent,
                   replies, result, service_response, runs, posts, listed, gen, proc,
                   loop_thread>>

\* The task is scheduled; run_forever tests again.
RpcRunForever(t) ==
    /\ rpc[t].pc = "scheduled"
    /\ LET checked == CheckRunning(loop_thread)
       IN  rpc' = [rpc EXCEPT ![t] =
                     IF checked.kind = "raise"
                     THEN [pc |-> "answered", answer |-> <<InternalError(checked.error)>>]
                     ELSE [pc |-> "entering", answer |-> << >>]]
    /\ UNCHANGED <<clients, tools, pc, system_prompt, enable_tools, messages, offered,
                   tool_results, tool_log, inflight, dispatched, response, sent,
                   replies, result, service_response, runs, posts, listed, gen, proc,
                   loop_thread>>

\* run_forever takes the loop for the thread.
RpcEnter(t) ==
    /\ rpc[t].pc = "entering"
    /\ rpc' = [rpc EXCEPT ![t].pc = "running"]
    /\ loop_thread' = t
    /\ UNCHANGED <<clients, tools, pc, system_prompt, enable_tools, messages, offered,
                   tool_results, tool_log, inflight, dispatched, response, sent,
                   replies, result, service_response, runs, posts, listed, gen, proc>>

\* The loop run of thread t ends; run_forever gives the loop back, and Chat
\* builds its response.
RpcComplete(t, answer) ==
    /\ rpc[t].pc = "running"
    /\ answer \in RpcAnswers(t, \E u \in Threads \ {t} : rpc[u].pc = "running")
    /\ rpc' = [rpc EXCEPT ![t] = [pc |-> "answered", answer |-> <<answer>>]]
    /\ loop_thread' = 0
    /\ UNCHANGED <<clients, tools, pc, system_prompt, enable_tools, messages, offered,
                   tool_results, tool_log, inflight, dispatched, response, sent,
                   replies, result, service_response, runs, posts, listed, gen, proc>>

\* The client of thread t has its response.
RpcBack(t) ==
    /\ rpc[t].pc = "answered"
    /\ rpc' = [rpc EXCEPT ![t] = IdleRpc]
    /\ UNCHANGED <<clients, tools, pc, system_prompt, enable_tools, messages, offered,
                   tool_results, tool_log, inflight, dispatched, response, sent,
                   replies, result, service_response, runs, posts, listed, gen, proc,
                   loop_thread>>

RpcNext ==
    \E t \in Threads :
        \/ RpcChat(t)
        \/ RpcRunForever(t)
        \/ RpcEnter(t)
        \/ \E answer \in RpcAnswers(t, TRUE) : RpcComplete(t, answer)
        \/ RpcBack(t)

SpecRpc == Init /\ [][RpcNext]_vars

--------------------------------------------------------------------------
\* MCPManager on its own: discovery of the servers, then get_tools_for_llm
\* and call_tool in any order.

\* The server names _register_tools is called with, and what list_tools of a
\* server may answer: up to Len(ServerTools) tools, or a failure.
Servers == {"internal", "external"}
RegListings ==
    { Return(l) : l \in UNION { [1..k -> { ServerTools[i] : i \in 1..Len(ServerTools) }] :
                                  k \in 0..Len(ServerTools) } }
    \cup { Raise(<<"list_tools failed">>) }

\* The names call_tool is called with: those a catalog may hold, and one
\* that none holds.
RegCallNames ==
    { QualifiedName(server, ServerTools[i]) : server \in Servers, i \in 1..Len(ServerTools) }
    \cup { QualifiedName("nonexistent", "tool") }

\* _add_internal_server for a server: the client is saved, then
\* _register_tools, which swallows a failure of list_tools.  Discovery is
\* over once the catalog is in use.
RegisterServer(server, listing) ==
    /\ server \notin clients
    /\ offered = << >> /\ tool_log = << >>
    /\ clients' = clients \cup {server}
    /\ tools' = IF listing.kind = "return"
                THEN RegisterTools(tools, server, listing.value)
                ELSE tools
    /\ listed' = Append(listed, [server |-> server, listing |-> listing])
    /\ UNCHANGED <<pc, system_prompt, enable_tools, messages, offered, tool_results,
                   tool_log, inflight, dispatched, response, sent, replies, result,
                   service_response, runs, posts,
                   gen, proc, rpc, loop_thread>>

\* MCPManager.get_tools_for_llm, after discovery.
RegGetToolsForLlm ==
    /\ clients # {}
    /\ offered' = GetToolsForLlm(tools)
    /\ UNCHANGED <<clients, tools, pc, system_prompt, enable_tools, messages,
                   tool_results, tool_log, inflight, dispatched, response, sent,
                   replies, result, service_response, runs, posts, listed,
                   gen, proc, rpc, loop_thread>>

\* MCPManager.call_tool from its call to its return or raise, after
\* discovery; the history keeps the last call.
RegCallTool(tool_name, outcome) ==
    /\ clients # {}
    /\ LET found == CallToolLookup(tools, clients, tool_name)
           tc == [id |-> "call_1", name |-> tool_name, args |-> {}]
       IN  IF found.kind = "raise"
           THEN /\ tool_log' = <<LogEntry(tc, "notfound", TRUE, found.error, found)>>
                /\ dispatched' = << >>
           ELSE /\ tool_log' = <<LogEntry(tc, outcome.kind, TRUE, outcome.text,
                                          CallToolOutcome(tool_name, outcome))>>
                /\ dispatched' = <<[id |-> tc.id, server |-> found.value.server,
                                    name |-> found.value.name, arguments |-> tc.args]>>
    /\ tools' = CatalogAfterCall(tools, tool_name, outcome)
    /\ UNCHANGED <<clients, pc, system_prompt, enable_tools, messages, offered,
                   tool_results, inflight, response, sent, replies, result,
                   service_response, runs, posts, listed,
                   gen, proc, rpc, loop_thread>>

RegNext ==
    \/ \E server \in Servers, listing \in RegListings : RegisterServer(server, listing)
    \/ RegGetToolsForLlm
    \/ \E tool_name \in RegCallNames, outcome \in ToolOutcomes :
          RegCallTool(tool_name, outcome)

SpecReg == Init /\ [][RegNext]_vars

--------------------------------------------------------------------------
\* Vocabulary of the properties

Done == pc = "done"

\* The run was cancelled while it waited.
Cancelled == pc = "cancelled"

\* The first / second POST of the run was answered with a 200 and a body.
FirstOk == Len(replies) >= 1 /\ replies[1].kind = "ok"
SecondOk == Len(replies) >= 2 /\ replies[2].kind = "ok"

\* The tool calls of a reply as the provider sent them.
RawCallsOf(k) == replies[k].tool_calls

\* A tool call of reply k has arguments that are no JSON document.
HasMalformedArgs(k) ==
    \E i \in 1..Len(RawCallsOf(k)) : RawCallsOf(k)[i].arguments = "{bad"

\* The tool-role messages of a conversation, in its order.
ToolRole(conversation) == SelectSeq(conversation, LAMBDA m : m.role = "tool")

\* A text holds a token.
Contains(text, token) == \E i \in 1..Len(text) : text[i] = token

\* A text that tells of a failure: the apology or the error prefix.
IsErrorText(text) == text # << >> /\ text[1] \in {"Sorry, ", "Error: "}

\* The run has entered the tool round.
InToolRound == pc \in {"tools", "call2"} \/ tool_log # << >> \/ Len(sent) >= 2

\* The second model call failed: no 200, or a body whose tool calls do not decode.
SecondFailed == Len(replies) >= 2 /\ (replies[2].kind # "ok" \/ HasMalformedArgs(2))

\* The calls handed to the MCP client are those that have ended in a result,
\* a timeout or an error of the tool, and the one still awaited.
EndedAtClient ==
    { i \in 1..Len(tool_log) : tool_log[i].outcome \in {"ok", "timeout", "error"} }

--------------------------------------------------------------------------
\* C1: when the first response requests tool calls t1..tn and the tool round
\* runs, the conversation of the second model call holds exactly n tool-role
\* messages; the i-th carries the id of ti and what executing ti gave: the
\* tool's own text when it answered, an error text otherwise (not found,
\* timeout, error of the tool), in the order of the request.
C1_ToolMessagesInRequestOrder ==
    Len(sent) >= 2 =>
        LET tm == ToolRole(sent[2].messages)
            raw == RawCallsOf(1)
        IN  /\ Len(tm) = Len(raw)
            /\ Len(tool_log) = Len(raw)
            /\ \A i \in 1..Len(raw) :
                /\ tm[i].tool_call_id = raw[i].id
                /\ tool_log[i].id = raw[i].id /\ tool_log[i].name = raw[i].name
                /\ IF tool_log[i].outcome = "ok"
                   THEN tm[i].content = tool_log[i].output
                   ELSE IsErrorText(tm[i].content)

\* Two calls with different ids, the first timed out and the second answered.
C1_Witness ==
    /\ Len(sent) = 2
    /\ Len(tool_log) = 2
    /\ tool_log[1].id = "call_2" /\ tool_log[2].id = "call_1"
    /\ tool_log[1].outcome = "timeout" /\ tool_log[2].outcome = "ok"

\* C2: when the second response (after a round of catalog tools) carries
\* tool_calls, none is executed, the final text is the content of that
\* response, and there is no third call.
C2_SecondResponseToolCallsIgnored ==
    (Done /\ SecondOk /\ RawCallsOf(2) # << >>
          /\ \A i \in 1..Len(RawCallsOf(1)) : InTools(tools, RawCallsOf(1)[i].name)) =>
        /\ result[1].success
        /\ result[1].message = replies[2].content
        /\ Len(sent) = 2
        /\ Len(tool_log) = Len(RawCallsOf(1))

\* C3: a first response without tool_calls: success, the message is the
\* content of the response, call_tool was not invoked, one model call.
C3_NoToolPath ==
    (Done /\ FirstOk /\ RawCallsOf(1) = << >>) =>
        /\ result[1].kind = "return"
        /\ result[1].success
        /\ result[1].message = replies[1].content
        /\ tool_log = << >> /\ dispatched = << >>
        /\ Len(sent) = 1 /\ Len(replies) = 1

\* Tools were offered, the response has an empty content and asks for none.
C3_Witness ==
    /\ Done /\ FirstOk /\ RawCallsOf(1) = << >>
    /\ offered # << >>
    /\ replies[1].content = << >>
    /\ result[1].success

\* C4: a call_tool with a name that is not in the catalog raises the
\* not-found error and hands nothing to an MCP client; the failure becomes
\* the error text of the tool-role result of that call,
\* and the run goes on to the second model call: if it fails, then because
\* that call failed.
C4_UnknownToolDegrades ==
    /\ \A i \in 1..Len(dispatched) :
           InTools(tools, <<dispatched[i].server, ":", dispatched[i].name>>)
    /\ Len(dispatched) = Cardinality(EndedAtClient) + Len(inflight)
    /\ \A i \in 1..Len(tool_log) :
           (tool_log[i].name # << >> /\ ~InTools(tools, tool_log[i].name)) =>
               /\ tool_log[i].called
               /\ tool_log[i].output = <<"tool does not exist: ">> \o tool_log[i].name
               /\ i \notin EndedAtClient
               /\ i <= Len(tool_results)
               /\ IsErrorText(tool_results[i])
               /\ Len(sent) >= 2 =>
                    ToolRole(sent[2].messages)[i].content = tool_results[i]
               /\ Done => /\ Len(replies) = 2
                          /\ (~result[1].success => SecondFailed)

\* A run that asked for an unknown tool and ended in success.
C4_Witness ==
    /\ Done /\ result[1].success
    /\ \E i \in 1..Len(tool_log) :
           tool_log[i].name = <<"nonexistent", ":", "tool">>

\* C5: a tool call that ran into the timeout gives a tool-role message with an
\* error text, is no longer awaited, and the run returns a result that fails
\* only if the second model call failed.
C5_TimeoutIsolated ==
    \A i \in 1..Len(tool_log) :
        tool_log[i].outcome = "timeout" =>
            /\ i <= Len(tool_results)
            /\ IsErrorText(tool_results[i])
            /\ inflight # << >> => Len(tool_results) = Len(tool_log)
            /\ pc \in {"tools", "call2", "done"}
            /\ pc = "tools" => inflight # << >>
            /\ Len(sent) >= 2 =>
                 IsErrorText(ToolRole(sent[2].messages)[i].content)
            /\ Done => /\ inflight = << >>
                       /\ result[1].kind = "return"
                       /\ Len(replies) = 2
                       /\ (~result[1].success => SecondFailed)

\* A run whose only tool call timed out and that ended in success.
C5_Witness ==
    /\ Done /\ result[1].success
    /\ Len(tool_log) = 1 /\ tool_log[1].outcome = "timeout"

\* C6: once the tool round has begun, whatever its calls end in, the second
\* model call is made exactly once, and the run succeeds exactly when that
\* call does.
C6_SecondCallDecides ==
    InToolRound =>
        /\ pc \in {"tools", "call2", "done"}
        /\ pc = "tools" => Len(sent) = 1
        /\ pc = "call2" => Len(sent) = 2 /\ Len(replies) = 1
        /\ Done => /\ Len(sent) = 2 /\ Len(replies) = 2
                   /\ result[1].success <=> ~SecondFailed

\* Both runs exist: a timeout and an unknown tool before a success, and an
\* answered tool before a failure of the second call.
C6_Witness ==
    /\ Done /\ Len(tool_log) = 2
    /\ tool_log[1].outcome = "timeout" /\ tool_log[2].outcome = "notfound"
    /\ result[1].success

\* C7: the first POST answered with a status other than 200: failure, the
\* error names the status, no tool is executed, no further model call.
C7_UpstreamStatusFails ==
    (Done /\ replies[1].kind = "status") =>
        /\ result[1].kind = "return"
        /\ ~result[1].success
        /\ result[1].message = << >>
        /\ replies[1].status = 500 => Contains(result[1].error, "500")
        /\ replies[1].status = 429 => Contains(result[1].error, "429")
        /\ tool_log = << >> /\ dispatched = << >>
        /\ Len(sent) = 1 /\ Len(replies) = 1

C7_Witness ==
    /\ Done /\ replies[1].kind = "status" /\ replies[1].status = 500
    /\ offered # << >>

\* C8: malformed arguments in a tool call of the first response do not fail
\* the run: with tools offered and every call naming a tool of the catalog,
\* the call is executed with an empty mapping and the second model call is
\* made.
C8_MalformedArgumentsDegrade ==
    (Done /\ FirstOk /\ offered # << >> /\ HasMalformedArgs(1)
          /\ \A i \in 1..Len(RawCallsOf(1)) : InTools(tools, RawCallsOf(1)[i].name)) =>
        /\ Len(sent) = 2
        /\ \A i \in 1..Len(RawCallsOf(1)) :
               RawCallsOf(1)[i].arguments = "{bad" =>
                   i <= Len(tool_log) /\ tool_log[i].args = {}

\* C9 as stated: with an empty registry, the tool calls of the first response
\* (named, with well-formed arguments) each become a not-found tool message
\* and the second round is made.
C9_EmptyRegistryStillRunsRound ==
    (Done /\ FirstOk /\ enable_tools /\ tools = << >> /\ RawCallsOf(1) # << >>
          /\ ~HasMalformedArgs(1)
          /\ \A i \in 1..Len(RawCallsOf(1)) : RawCallsOf(1)[i].name # << >>) =>
        /\ Len(sent) = 2
        /\ Len(ToolRole(sent[2].messages)) = Len(RawCallsOf(1))
        /\ \A i \in 1..Len(RawCallsOf(1)) :
               IsErrorText(ToolRole(sent[2].messages)[i].content)

\* C9 amended: with an empty registry, the tool calls of the first response
\* are not executed, no tool message is made and no second model call; the
\* result comes from the first response alone, its content on success.
C9_EmptyRegistrySkipsRound ==
    (Len(replies) >= 1 /\ FirstOk /\ tools = << >> /\ RawCallsOf(1) # << >>) =>
        /\ Done
        /\ tool_log = << >> /\ dispatched = << >> /\ tool_results = << >>
        /\ Len(sent) = 1 /\ Len(replies) = 1
        /\ result[1].success => result[1].message = replies[1].content
        /\ result[1].success <=> ~HasMalformedArgs(1)

C9_Witness ==
    /\ Done /\ FirstOk /\ enable_tools /\ tools = << >>
    /\ Len(RawCallsOf(1)) = 2 /\ ~HasMalformedArgs(1)
    /\ result[1].success

\* The names of the registry's definitions, in the order of the catalog.
RegistryNames == [ i \in 1..Len(tools) |-> tools[i].key ]
NamesOf(tool_defs) == [ i \in 1..Len(tool_defs) |-> tool_defs[i].name ]

\* C10 as stated: with tools enabled, every model call of the run carries the
\* definitions of the registry.
C10_EveryCallCarriesTools ==
    enable_tools =>
        \A k \in 1..Len(sent) : NamesOf(sent[k].tools) = RegistryNames

\* C10 amended: the first model call carries the definitions of the registry
\* (none when tools are disabled or the registry is empty); the call after
\* the tool round carries the conversation and no tool definitions.
C10_OnlyFirstCallCarriesTools ==
    /\ Len(sent) <= 2
    /\ Len(sent) >= 1 =>
         NamesOf(sent[1].tools) = IF enable_tools THEN RegistryNames ELSE << >>
    /\ Len(sent) >= 2 =>
         /\ sent[2].tools = << >>
         /\ sent[1].tools # << >>
         /\ Len(sent[2].messages) > Len(sent[1].messages)

C10_Witness ==
    /\ Len(sent) = 2 /\ Len(tools) = 2
    /\ NamesOf(sent[1].tools) = RegistryNames

\* The predefined apology of the printer status tool.
PrinterStatusApology ==
    <<"Sorry, ", "the printer status query is unavailable, retry later or check the device">>

\* A tool call that reached the MCP client and failed there.
FailedAtClient(entry) == entry.outcome \in {"timeout", "error"}

\* C11: when the execution of the printer status tool, called as
\* internal:printer_status, fails, the tool result is the predefined apology
\* of that tool; the failure of any other tool gives the generic message
\* with the name of the tool in it.
C11_KnownToolApology ==
    \A i \in 1..Len(tool_log) :
        /\ (tool_log[i].name = QualifiedName("internal", "printer_status")
               /\ FailedAtClient(tool_log[i])) =>
              tool_log[i].ret = PrinterStatusApology
        /\ (tool_log[i].name = QualifiedName("nonexistent", "tool")
               /\ tool_log[i].outcome = "notfound") =>
              tool_log[i].ret = <<"Sorry, ">> \o tool_log[i].name
                                    \o <<" is unavailable, retry later">>

\* The position of the assistant message that carries a tool call with id
\* `id`, before position j of a conversation; 0 when there is none.
AssistantBefore(conversation, j, id) ==
    LET found == { a \in 1..(j - 1) :
                     /\ conversation[a].role = "assistant"
                     /\ \E t \in 1..Len(conversation[a].tool_calls) :
                            conversation[a].tool_calls[t].id = id }
    IN  IF found = {} THEN 0 ELSE CHOOSE a \in found : TRUE

\* C12: in every conversation passed to a model call, the tool_call_id of
\* each tool-role message is the id of a tool call of an assistant message
\* earlier in that conversation, and that assistant message stands after the
\* system/user messages and before every tool-role message.
C12_ToolMessagesReferToEarlierCall ==
    \A k \in 1..Len(sent) :
        LET conversation == sent[k].messages
        IN  \A j \in 1..Len(conversation) :
                conversation[j].role = "tool" =>
                    LET a == AssistantBefore(conversation, j, conversation[j].tool_call_id)
                    IN  /\ a # 0
                        /\ \A b \in 1..(a - 1) : conversation[b].role \in {"system", "user"}
                        /\ \A b \in 1..Len(conversation) :
                               conversation[b].role = "tool" => a < b

\* A conversation with a system prompt and two tool messages of different ids.
C12_Witness ==
    /\ Len(sent) = 2
    /\ system_prompt # << >>
    /\ Len(ToolRole(sent[2].messages)) = 2
    /\ ToolRole(sent[2].messages)[1].tool_call_id = "call_2"
    /\ ToolRole(sent[2].messages)[2].tool_call_id = "call_1"

\* C13: at most one tool execution of the run is in flight; the call in
\* flight is the one after those that have ended, in the order of the request,
\* so the (i+1)-th starts only after the i-th has returned or failed.
C13_OneToolAtATime ==
    /\ Len(inflight) <= 1
    /\ Len(dispatched) = Cardinality(EndedAtClient) + Len(inflight)
    /\ \A i \in 1..Len(tool_log) : tool_log[i].id = RawCallsOf(1)[i].id
    /\ inflight # << >> =>
          /\ pc = "tools"
          /\ Len(tool_results) = Len(tool_log)
          /\ Len(tool_log) < Len(RawCallsOf(1))
          /\ inflight[1].id = RawCallsOf(1)[Len(tool_log) + 1].id
          /\ inflight[1] = dispatched[Len(dispatched)]

\* The second of two calls is in flight after the first one has answered.
C13_Witness ==
    /\ pc = "tools" /\ inflight # << >>
    /\ Len(RawCallsOf(1)) = 2
    /\ Len(tool_log) = 1 /\ tool_log[1].outcome = "ok"
    /\ Len(dispatched) = 2

\* The assistant message of the conversation of the second model call.
AssistantOf(conversation) == conversation[Len(messages) + 1]

\* A tool call of an assistant message is the raw tool call: same id, same
\* name, and arguments that decode to the same mapping.
SameCall(formatted, raw) ==
    /\ formatted.id = raw.id
    /\ formatted.name = raw.name
    /\ JsonLoads(formatted.arguments) = JsonLoads(raw.arguments)

SameCalls(formatted, raw) ==
    /\ Len(formatted) = Len(raw)
    /\ \A i \in 1..Len(raw) : SameCall(formatted[i], raw[i])

\* C14 as stated: the assistant message after a tool-requesting response
\* carries the content and the tool calls of that response; an empty content
\* stays empty.
C14_AssistantMessageAsReturned ==
    Len(sent) >= 2 =>
        LET a == AssistantOf(sent[2].messages)
        IN  /\ a.role = "assistant"
            /\ a.content = replies[1].content
            /\ SameCalls(a.tool_calls, RawCallsOf(1))

\* C14 amended: the assistant message carries the tool calls of the response
\* (id, name, the arguments encoded again from the decoded mapping) and its
\* content when that has a non-blank character; an empty or blank content is
\* replaced by the fixed placeholder text.
C14_AssistantMessageWithPlaceholder ==
    Len(sent) >= 2 =>
        LET a == AssistantOf(sent[2].messages)
        IN  /\ a.role = "assistant"
            /\ a.tool_call_id = ""
            /\ a.content = IF replies[1].content \in { << >>, <<" ">> }
                           THEN <<"calling tools...">>
                           ELSE replies[1].content
            /\ SameCalls(a.tool_calls, RawCallsOf(1))
            /\ \A i \in 1..Len(a.tool_calls) :
                   a.tool_calls[i].arguments \in {"{}", "{\"temperature\": 200}"}

\* A tool-requesting response with an empty content and arguments that the
\* encoding writes differently.
C14_Witness ==
    /\ Len(sent) = 2
    /\ replies[1].content = << >>
    /\ \E i \in 1..Len(RawCallsOf(1)) :
           RawCallsOf(1)[i].arguments = "{\"temperature\":200}"

\* The run waits for a model call or a tool call.
Waiting == pc \in {"call1", "tools", "call2"}

\* What is left of the run at most: the model calls and the tool calls.
StepsLeft ==
    CASE pc = "call1" -> 2 + MaxCalls
      [] pc = "tools" -> 1 + Len(RawCallsOf(1)) - Len(tool_log)
      [] pc = "call2" -> 1
      [] OTHER -> 0

\* C15: a run of chat whose calls all end (answer, fail or time out) ends
\* with exactly one result, a success or a failure, which it returns; no
\* failure of a model call or a tool call makes it raise.  A run that has
\* not ended waits for exactly one call (a model call without its reply, or
\* the one tool call in flight), and the end of that call, whatever it is,
\* brings the run nearer to its return; a run that has returned does nothing
\* more.
C15_ExactlyOneResult ==
    /\ [](/\ pc \in {"idle", "call1", "tools", "call2", "done"}
          /\ Done <=> result # << >>
          /\ Done => /\ Len(result) = 1
                     /\ result[1].kind = "return"
                     /\ result[1].success \in BOOLEAN
                     /\ inflight = << >>
                     /\ Len(replies) = Len(sent)
          /\ pc = "call1" => Len(sent) = 1 /\ Len(replies) = 0
          /\ pc = "tools" => Len(inflight) = 1 /\ Len(replies) = 1
          /\ pc = "call2" => Len(sent) = 2 /\ Len(replies) = 1)
    /\ [][Waiting => StepsLeft' < StepsLeft]_vars
    /\ [][Done => (pc' = "idle" \/ UNCHANGED vars)]_vars

\* A run that ended in a failure after a tool of it had failed.
C15_Witness ==
    /\ Done /\ ~result[1].success
    /\ Len(replies) = 2
    /\ \E i \in 1..Len(tool_log) : tool_log[i].outcome = "error"

\* No token of `text` is in `where`.
NothingOf(text, where) == \A i \in 1..Len(text) : ~Contains(where, text[i])

\* C16: when the second model call fails after the tool round, the caller
\* gets a failure with an empty message and an error, and nothing of the
\* transcript: neither the content of the first response nor a tool result
\* is in the result.
C16_NoPartialTranscript ==
    (Done /\ Len(sent) = 2 /\ SecondFailed) =>
        /\ Len(result) = 1
        /\ result[1].kind = "return"
        /\ ~result[1].success
        /\ result[1].message = << >>
        /\ result[1].error # << >>
        /\ result[1].tools_used = 0 /\ result[1].tool_call_ids = << >>
        /\ NothingOf(Strip(replies[1].content), result[1].error)
        /\ \A i \in 1..Len(tool_results) :
               /\ tool_results[i] # << >>
               /\ NothingOf(tool_results[i], result[1].error)

\* The first response had a text, a tool answered, the second call got a 500.
C16_Witness ==
    /\ Done /\ Len(sent) = 2
    /\ replies[2].kind = "status"
    /\ replies[1].content = <<"The printer is idle.">>
    /\ \E i \in 1..Len(tool_log) : tool_log[i].outcome = "ok"

\* C17: a result of chat with success has no error and the final text (the
\* content of the last response) as its message; a result without success
\* has a non-empty error and an empty message.
C17_ResultShape ==
    Done =>
        /\ result[1].success =>
              /\ result[1].error = << >>
              /\ replies[Len(replies)].kind = "ok"
              /\ result[1].message = replies[Len(replies)].content
        /\ ~result[1].success =>
              /\ result[1].error # << >>
              /\ result[1].message = << >>

\* A failure of the first model call, with tools offered.
C17_Witness ==
    /\ Done /\ ~result[1].success
    /\ Len(replies) = 1 /\ replies[1].kind = "timeout"
    /\ offered # << >>

OwnInitial(r) ==
    (IF runs[r].system_prompt # << >>
     THEN <<[role |-> "system", content |-> runs[r].system_prompt,
             tool_calls |-> << >>, tool_call_id |-> ""]>>
     ELSE << >>)
    \o <<[role |-> "user", content |-> UserMessageOf(r), tool_calls |-> << >>,
          tool_call_id |-> ""]>>

\* C19: whatever the order and the interleaving of the chat runs on one
\* client, the first model call of a run sends exactly its system message
\* (if a prompt was given) and its user message, and its second model call
\* sends these, the assistant message of its own first response and the tool
\* messages of its own tool results; a run that has returned leaves nothing.
C19_RunsShareNoMessages ==
    \A r \in Runs :
        LET l == runs[r]
            n == Len(OwnInitial(r))
        IN  /\ l.pc = "idle" => l = IdleRun
            /\ Len(l.sent) >= 1 => l.sent[1].messages = OwnInitial(r)
            /\ Len(l.sent) >= 2 =>
                  LET conversation == l.sent[2].messages
                      raw == l.replies[1].tool_calls
                  IN  /\ Len(conversation) = n + 1 + Len(raw)
                      /\ SubSeq(conversation, 1, n) = OwnInitial(r)
                      /\ conversation[n + 1].role = "assistant"
                      /\ conversation[n + 1].content \in
                             {l.replies[1].content, <<"calling tools...">>}
                      /\ SameCalls(conversation[n + 1].tool_calls, raw)
                      /\ Len(l.tool_log) = Len(raw)
                      /\ \A i \in 1..Len(raw) :
                             conversation[n + 1 + i] =
                                 [role |-> "tool", content |-> l.tool_log[i].ret,
                                  tool_calls |-> << >>, tool_call_id |-> raw[i].id]

\* Two runs wait for their second model call at once, one with a system
\* prompt and one without, after different tool results.
C19_Witness ==
    /\ runs[1].pc = "call2" /\ runs[2].pc = "call2"
    /\ runs[1].system_prompt # << >> /\ runs[2].system_prompt = << >>
    /\ runs[1].tool_results # runs[2].tool_results

\* C21: after discovery, get_tools_for_llm and call_tool, whether the call
\* succeeds, fails, times out or finds no tool, leave the tool catalog and
\* the client map as they were.
C21_CatalogFrozenAfterDiscovery ==
    [][(offered' # offered \/ tool_log' # tool_log \/ dispatched' # dispatched)
          => (tools' = tools /\ clients' = clients)]_vars

\* A call of a tool of a two-tool catalog has timed out, after the catalog
\* was advertised.
C21_Witness ==
    /\ Len(tools) >= 2 /\ offered # << >>
    /\ tool_log # << >> /\ tool_log[1].outcome = "timeout"
    /\ InTools(tools, tool_log[1].name)

\* The (source, tool) pairs the servers have listed at discovery.
ListedPairs ==
    UNION { { [server |-> listed[k].server, name |-> listed[k].listing.value[j]] :
                j \in 1..Len(listed[k].listing.value) } :
            k \in { k \in 1..Len(listed) : listed[k].listing.kind = "return" } }

\* C28: every name get_tools_for_llm advertises has the form source:tool, is
\* found by call_tool in the catalog and goes to the connected client of that
\* source under the tool's own name; every tool a source has listed is
\* advertised under a name that resolves to that source and that tool, so
\* tools of one name from two sources stay apart; a dispatched call went
\* where its name resolves.
C28_AdvertisedNamesResolve ==
    /\ \A i \in 1..Len(GetToolsForLlm(tools)) :
          LET n == GetToolsForLlm(tools)[i].name
              found == CallToolLookup(tools, clients, n)
          IN  /\ found.kind = "return"
              /\ found.value.server \in clients
              /\ found.value \in ListedPairs
              /\ n = <<found.value.server, ":", found.value.name>>
    /\ \A pair \in ListedPairs :
          \E i \in 1..Len(GetToolsForLlm(tools)) :
             CallToolLookup(tools, clients, GetToolsForLlm(tools)[i].name) = Return(pair)
    /\ \A i \in 1..Len(offered) :
          \E j \in 1..Len(GetToolsForLlm(tools)) : offered[i] = GetToolsForLlm(tools)[j]
    /\ dispatched # << >> =>
          /\ CallToolLookup(tools, clients, tool_log[1].name)
                = Return([server |-> dispatched[1].server, name |-> dispatched[1].name])
          /\ tool_log[1].name = <<dispatched[1].server, ":", dispatched[1].name>>

\* Two sources have listed printer_status, both are advertised, and a call
\* of the external one went to the external client.
C28_Witness ==
    /\ [server |-> "internal", name |-> "printer_status"] \in ListedPairs
    /\ [server |-> "external", name |-> "printer_status"] \in ListedPairs
    /\ Len(offered) >= 2
    /\ dispatched # << >>
    /\ dispatched[1].server = "external" /\ dispatched[1].name = "printer_status"

\* C22: the step that cancels a run of chat waiting for a model call or a
\* tool call sends no request, dispatches no tool call and appends no tool
\* result; the cancelled run waits for nothing, has no result, and does
\* nothing more until its caller has the CancelledError.
C22_CancelledRunStops ==
    /\ [](Cancelled => /\ inflight = << >>
                       /\ result = << >> /\ service_response = << >>
                       /\ Len(replies) < Len(sent) \/ Len(tool_results) < Len(RawCallsOf(1)))
    /\ [][Cancelled' /\ ~Cancelled
            => /\ Waiting
               /\ UNCHANGED <<sent, dispatched, tool_results, tool_log, replies, posts>>]_vars
    /\ [][Cancelled => pc' = "idle"]_vars

\* A run cancelled while its second tool call was in flight, the first one
\* finished.
C22_Witness ==
    /\ Cancelled
    /\ Len(tool_results) = 1 /\ Len(dispatched) = 2
    /\ Len(sent) = 1

\* C23: every invocation of chat_completion that has ended, in a 200, another
\* status, a timeout, a request error or a malformed body, has issued one
\* POST and no more: the POSTs of a run are as many as the replies, and at
\* most as many as the requests chat has made.
C23_OnePostPerInvocation ==
    /\ posts = Len(replies)
    /\ posts <= Len(sent)
    /\ \A k \in 1..Len(replies) :
          replies[k].kind \in {"ok", "status", "timeout", "request_error",
                                "bad_json", "bad_schema"}

\* A run of two invocations, the second of which timed out.
C23_Witness ==
    /\ Done /\ Len(replies) = 2
    /\ replies[1].kind = "ok" /\ replies[2].kind = "timeout"
    /\ posts = 2

\* C24: the result of a successful run reports the tool calls the run has
\* executed: tools_used is their number and tool_call_ids their ids, in
\* order; they are 0 and empty only when no tool was executed.
C24_MetadataReportsExecutedCalls ==
    (Done /\ result[1].success) =>
        /\ result[1].tools_used = Len(tool_results)
        /\ result[1].tool_call_ids = [ i \in 1..Len(tool_log) |-> tool_log[i].id ]

\* C25: every generation parameter a caller passes to chat (temperature,
\* max_tokens, top_p, stop, response_format, model) is in the body of every
\* model call of the run, with the value passed.
C25_GenerationParamsReachProvider ==
    \A k \in 1..Len(gen.bodies) :
        \A key \in GenKeys :
            gen.kwargs[1][key] # "absent" => gen.bodies[k][key] = gen.kwargs[1][key]

\* C26: a run of chat makes at most two model calls and at most one round of
\* tool executions, all of them calls of the first response and all between
\* the first model call and the second; a run that has ended has made one
\* model call when the first call failed or its response asked for no tool,
\* and two exactly when a tool round ran.
C26_AtMostTwoModelCalls ==
    /\ Len(sent) <= 2 /\ Len(replies) <= Len(sent)
    /\ pc = "tools" => Len(sent) = 1
    /\ Len(dispatched) <= Len(tool_log) + 1
    /\ tool_log # << >> =>
          /\ FirstOk
          /\ Len(tool_log) <= Len(RawCallsOf(1))
          /\ \A i \in 1..Len(tool_log) : tool_log[i].id = RawCallsOf(1)[i].id
    /\ Done =>
          /\ Len(sent) \in {1, 2}
          /\ Len(sent) = 2 <=> tool_log # << >>
          /\ ~FirstOk => Len(sent) = 1
          /\ (FirstOk /\ RawCallsOf(1) = << >>) => Len(sent) = 1

\* A run that ended after two model calls and one round of two tool calls,
\* the first of which failed.
C26_Witness ==
    /\ Done /\ Len(sent) = 2 /\ Len(replies) = 2
    /\ Len(tool_log) = 2
    /\ tool_log[1].outcome = "error" /\ tool_log[2].outcome = "ok"

\* The text of the exception that ended a failed tool call.
UnderlyingError(entry) ==
    IF entry.outcome = "notfound" THEN entry.output
    ELSE CallToolOutcome(entry.name, [kind |-> entry.outcome, text |-> entry.output]).error

\* The tool call of a log entry failed: not found, timed out, or raised.
Failed(entry) == entry.outcome \in {"notfound", "timeout", "error"}

\* C27: what a failed tool call gives to the conversation is a function of
\* the tool's name alone: the apology looked up by the name, whether the tool
\* was not found, timed out or raised; two failed calls of one name give the
\* same text; no token of the underlying error, other than the name, is in
\* it; and the tool-role message of the second request carries that text.
C27_FailureTextFromNameOnly ==
    /\ \A i \in 1..Len(tool_log) :
          Failed(tool_log[i]) =>
             /\ tool_log[i].ret = FriendlyMessage(tool_log[i].name)
             /\ UnderlyingError(tool_log[i]) # << >>
             /\ \A k \in 1..Len(UnderlyingError(tool_log[i])) :
                   Contains(tool_log[i].ret, UnderlyingError(tool_log[i])[k])
                      => Contains(tool_log[i].name, UnderlyingError(tool_log[i])[k])
             /\ Len(sent) = 2 => ToolRole(sent[2].messages)[i].content = tool_log[i].ret
    /\ \A i, j \in 1..Len(tool_log) :
          (Failed(tool_log[i]) /\ Failed(tool_log[j])
              /\ tool_log[i].name = tool_log[j].name) =>
             tool_log[i].ret = tool_log[j].ret

\* Two calls of one tool in a run, one timed out and one raised, both in the
\* second request.
C27_Witness ==
    /\ Len(sent) = 2 /\ Len(tool_log) = 2
    /\ tool_log[1].name = tool_log[2].name
    /\ tool_log[1].outcome = "timeout" /\ tool_log[2].outcome = "error"

\* The message holds nothing but blanks; the empty message does.
OnlyWhitespace(message) == \A i \in 1..Len(message) : message[i] = " "

\* C30: a request whose action is neither chat nor stream_chat, and a chat
\* request whose message is empty or only whitespace, is answered at once
\* with an error response: chat is not called, so there is no model call
\* and no tool execution; and whatever the request, process ends with one
\* response, a success or an error with its text, never an exception.
C30_InvalidRequestsRejected ==
    proc.pc # "idle" =>
        LET request == proc.request[1]
            rejected == \/ request.action \notin {"chat", "stream_chat"}
                        \/ ~request.payload.has_message
                        \/ OnlyWhitespace(request.payload.message)
        IN  /\ rejected =>
                /\ proc.pc = "answered"
                /\ proc.chat_calls = << >>
                /\ ~proc.answer[1].success
                /\ proc.answer[1].error # << >>
            /\ ~rejected => Len(proc.chat_calls) = 1
            /\ proc.pc = "answered" =>
                /\ Len(proc.answer) = 1
                /\ proc.answer[1].success \in BOOLEAN
                /\ ~proc.answer[1].success => proc.answer[1].error # << >>
            /\ sent = << >> /\ dispatched = << >> /\ tool_log = << >>

\* A stream_chat request with a message of two blanks was answered with the
\* error of the empty message.
C30_Witness ==
    /\ proc.pc = "answered"
    /\ proc.request[1].action = "stream_chat"
    /\ proc.request[1].payload.message = <<" ", " ">>
    /\ proc.answer[1].error = <<"the message must not be empty">>

\* C29: every Chat RPC that has been answered, alone or while another is
\* handled, has the response that application.execute gave for its own
\* request, and no internal error.
C29_ConcurrentRpcsEachAnswered ==
    \A t \in Threads :
        rpc[t].pc = "answered" =>
            rpc[t].answer[1] \in { HandlerResponse(r) : r \in ExecuteResults(t) }

====
